---- MODULE Spec2Model ----
(***************************************************************************)
(* Model of hloc/localize_inloc.py: depth-scan interpolation               *)
(* (interpolate_scan), scan pose lookup (get_scan_pose), the two           *)
(* correspondence aggregators (pose_from_cluster,                          *)
(* pose_from_cluster_onfly_matching) and their drivers (main,              *)
(* localize_with_matcher).                                                 *)
(*                                                                         *)
(* Numbers.  A float is a record [nan, v]: NaN, or the integer v.  Pixel   *)
(* coordinates are integers in units of 1/Sub pixel.  Sampled scan values  *)
(* are integers in units of 1/(Sub*Sub), the common denominator of the     *)
(* bilinear weights.                                                       *)
(***************************************************************************)
EXTENDS Integers, Sequences, FiniteSets, TLC

VARIABLES
    \* ---- interpolate_scan called on its own ----
    is_scan,        \* argument scan
    is_kp,          \* argument kp
    is_ret,         \* what the call produced ("pending" before the call)
    \* ---- a localization run ----
    mode,           \* "onfly" (localize_with_matcher) or "precomputed" (main)
    skip_matches,   \* configured threshold; 0 stands for None in main
    pc,             \* position of the run
    qn,             \* 1-based position of the current query in `queries`
    retrieved,      \* retrieval_dict[q] of the current query
    i,              \* enumerate() index of the next reference view (0-based)
    all_mkpq, all_mkpr, all_mkp3d, all_indices,   \* per-view chunks
    num_matches,
    failed,         \* local failure list of the current query (onfly)
    logs_loc,       \* logs['loc']: query -> "absent" | "None" | "record"
    logs_failed,    \* logs['failed']
    poses,          \* keys of the poses dict
    res_dict,       \* the record last handed to logs['loc'] (NoRecord if none)
    pose_table,     \* names written to the pose file, in order
    logs_dumped,    \* the log pickle was written
    \* ---- history (not program state) ----
    all_src,        \* per-view chunks: where each kept correspondence came from
    last_view,      \* what the last processed reference view did
    solver_call,    \* the current query's call of absolute_pose_estimation, if any
    abort_cause     \* the exception that ended the run, "" if none

interp_vars == <<is_scan, is_kp, is_ret>>
run_vars == <<mode, skip_matches, pc, qn, retrieved, i, all_mkpq, all_mkpr,
              all_mkp3d, all_indices, num_matches, failed, logs_loc,
              logs_failed, poses, res_dict, pose_table, logs_dumped,
              all_src, last_view, solver_call, abort_cause>>
vars == <<interp_vars, run_vars>>

\* ------------------------------------------------------------------ bounds
Sub == 2            \* coordinate resolution: 1/Sub pixel
MaxDim == 2         \* scans of the stand-alone calls are at most MaxDim x MaxDim
MaxKp == 2          \* keypoints per stand-alone call (bounds assertion)
MaxSampleKp == 1    \* keypoints per stand-alone call (sampling)
MaxHoles == 1       \* NaN entries per scan of the stand-alone calls
NQ == 1             \* queries of a run
MaxRefs == 2        \* reference views per query
MaxMatches == 2     \* raw matches per (query, reference) pair

\* ------------------------------------------------------------------ floats
NaN == [nan |-> TRUE, v |-> 0]
Num(n) == [nan |-> FALSE, v |-> n]
isnan(a) == a.nan
FAdd(a, b) == IF a.nan \/ b.nan THEN NaN ELSE Num(a.v + b.v)
FMul(a, b) == IF a.nan \/ b.nan THEN NaN ELSE Num(a.v * b.v)

\* ------------------------------------------------------------------ scans
Channels == 1..3

\* The value stored at row y, column x, channel c of a scan of width w.
ScanValue(y, x, c, w) == c + 3 * (x + w * y)

\* An h x w x 3 scan whose entries in `holes` (<<y, x, c>>) are NaN.
MakeScan(h, w, holes) ==
    [h |-> h, w |-> w,
     px |-> [p \in (0..(h-1)) \X (0..(w-1)) |->
               [c \in Channels |->
                  IF <<p[1], p[2], c>> \in holes
                  THEN NaN ELSE Num(ScanValue(p[1], p[2], c, w))]]]

\* ------------------------------------------------------- interpolate_scan
\* kp / (dim-1) * 2 - 1 as the fraction NormNum / NormDen.
NormNum(c, dim) == 2 * c - (dim - 1) * Sub
NormDen(dim) == (dim - 1) * Sub

GreaterThanMinusOneLax(c, dim) == dim > 1 /\ NormNum(c, dim) >= - NormDen(dim)
\* kp > -1 (division by dim-1 = 0 gives nan or inf, never inside)
GreaterThanMinusOne(c, dim) == dim > 1 /\ NormNum(c, dim) > - NormDen(dim)
\* kp < 1
LessThanOne(c, dim) == dim > 1 /\ NormNum(c, dim) < NormDen(dim)

\* assert np.all(kp > -1) and np.all(kp < 1); column 0 is x, column 1 is y
BoundsAssertion(scan, kp) ==
    /\ \A k \in 1..Len(kp) :
          GreaterThanMinusOne(kp[k][1], scan.w) /\ GreaterThanMinusOne(kp[k][2], scan.h)
    /\ \A k \in 1..Len(kp) :
          LessThanOne(kp[k][1], scan.w) /\ LessThanOne(kp[k][2], scan.h)

\* grid_sample, align_corners=True: ((g + 1) / 2) * (dim - 1), in 1/Sub pixel
Unnormalize(c, dim) ==
    ((NormNum(c, dim) + NormDen(dim)) * (dim - 1) * Sub) \div (2 * NormDen(dim))

InScan(scan, y, x) == y >= 0 /\ y < scan.h /\ x >= 0 /\ x < scan.w

\* one corner's term of the bilinear sum; corners outside the scan add nothing
CornerTerm(scan, y, x, c, weight) ==
    IF InScan(scan, y, x) THEN FMul(scan.px[<<y, x>>][c], Num(weight)) ELSE Num(0)

\* mode='bilinear': the four neighbours weighted, NaN times 0 is NaN
Bilinear(scan, pt, c) ==
    LET ix == Unnormalize(pt[1], scan.w)
        iy == Unnormalize(pt[2], scan.h)
        x0 == ix \div Sub
        y0 == iy \div Sub
        wx1 == ix - x0 * Sub
        wy1 == iy - y0 * Sub
        wx0 == Sub - wx1
        wy0 == Sub - wy1
    IN  FAdd(FAdd(FAdd(CornerTerm(scan, y0, x0, c, wy0 * wx0),
                       CornerTerm(scan, y0, x0 + 1, c, wy0 * wx1)),
                  CornerTerm(scan, y0 + 1, x0, c, wy1 * wx0)),
             CornerTerm(scan, y0 + 1, x0 + 1, c, wy1 * wx1))

\* nearbyint: round to nearest, ties to even
NearbyInt(cs) ==
    LET q == cs \div Sub
        r == cs - q * Sub
    IN  IF 2 * r < Sub THEN q
        ELSE IF 2 * r > Sub THEN q + 1
        ELSE IF q % 2 = 0 THEN q ELSE q + 1

\* mode='nearest'
Nearest(scan, pt, c) ==
    LET x == NearbyInt(Unnormalize(pt[1], scan.w))
        y == NearbyInt(Unnormalize(pt[2], scan.h))
    IN  IF InScan(scan, y, x) THEN FMul(scan.px[<<y, x>>][c], Num(Sub * Sub)) ELSE Num(0)

WherePreferNearest(cond, a, b) == IF isnan(a) THEN b ELSE a
\* torch.where(cond, a, b)
Where(cond, a, b) == IF cond THEN a ELSE b

\* ~torch.any(torch.isnan(interp), 0) for one keypoint
ValidPoint(p) == ~ \E c \in Channels : isnan(p[c])

Raised(exc) == [raised |-> TRUE, exc |-> exc, kp3d |-> << >>, valid |-> << >>]

interpolate_scan(scan, kp) ==
    IF ~ BoundsAssertion(scan, kp) THEN Raised("AssertionError")
    ELSE LET interp == [k \in 1..Len(kp) |->
                         [c \in Channels |->
                            Where(isnan(Bilinear(scan, kp[k], c)),
                                  Nearest(scan, kp[k], c),
                                  Bilinear(scan, kp[k], c))]]
         IN  [raised |-> FALSE, exc |-> "",
              kp3d |-> interp,
              valid |-> [k \in 1..Len(kp) |-> ValidPoint(interp[k])]]

\* ---------------------------------------------------------- get_scan_pose
\* The transformation file of a reference view: absent, too short to hold
\* lines 8..11, or holding the 4 rows of P_after_GICP there.
get_scan_pose(file) ==
    IF ~ file.present THEN [raised |-> TRUE, exc |-> "FileNotFoundError", P |-> << >>]
    ELSE IF file.nlines < 11 THEN [raised |-> TRUE, exc |-> "IndexError", P |-> << >>]
    ELSE [raised |-> FALSE, exc |-> "", P |-> file.rows]

\* loadmat(...)["XYZcut"]
loadmat(file) ==
    IF ~ file.present THEN [raised |-> TRUE, exc |-> "FileNotFoundError", scan |-> << >>]
    ELSE [raised |-> FALSE, exc |-> "", scan |-> file.scan]

\* (Tr[:3, :3] @ mkp3d.T + Tr[:3, -1:]).T for one point
TransformPoint(Tr, p) ==
    [r \in Channels |->
        FAdd(FAdd(FAdd(FMul(Num(Tr[r][1]), p[1]), FMul(Num(Tr[r][2]), p[2])),
                  FMul(Num(Tr[r][3]), p[3])),
             Num(Tr[r][4]))]

Transform(Tr, pts) == [k \in 1..Len(pts) |-> TransformPoint(Tr, pts[k])]

\* ------------------------------------------------------------ numpy pieces
\* positions where a boolean mask is True, in order
MaskPositions(mask) ==
    LET F[n \in 0..Len(mask)] ==
            IF n = 0 THEN << >>
            ELSE IF mask[n] THEN Append(F[n-1], n) ELSE F[n-1]
    IN  F[Len(mask)]

\* a[mask]
BoolIndex(a, mask) ==
    LET pos == MaskPositions(mask)
    IN  [k \in 1..Len(pos) |-> a[pos[k]]]

\* np.count_nonzero(mask)
count_nonzero(mask) == Len(MaskPositions(mask))

\* np.full(n, value)
full(n, value) == [k \in 1..n |-> value]

\* np.concatenate(chunks, 0) of a non-empty list
concatenate(chunks) ==
    LET F[n \in 0..Len(chunks)] == IF n = 0 THEN << >> ELSE F[n-1] \o chunks[n]
    IN  F[Len(chunks)]

\* np.concatenate raises ValueError on an empty list
concatenate_raises(chunks) == Len(chunks) = 0

\* ------------------------------------------------------------ environment
Queries == 1..NQ
Refs == 1..MaxRefs

\* reference keypoints the matchers return: both lie inside a 2 x 3 scan,
\* KpB lies outside a 2 x 2 scan
KpA == <<1, 1>>
KpB == <<Sub + 1, 1>>
RefKps == {KpA, KpB}

\* query keypoint number k
QueryKp(k) == <<k, k>>

\* 2 x 3 scan: KpA's nearest pixel is NaN in channel 1 (invalid), KpB only
\* loses its bilinear sample (valid by the nearest-neighbour sample)
ScanHoled == MakeScan(2, 3, {<<0, 0, 1>>, <<1, 2, 2>>})
\* 2 x 2 scan without holes
ScanSmall == MakeScan(2, 2, {})
ScanFiles == {[present |-> FALSE, scan |-> << >>],
              [present |-> TRUE, scan |-> ScanHoled],
              [present |-> TRUE, scan |-> ScanSmall]}

\* rows of a rigid transform: a quarter turn about z, then a translation
PoseRows == << <<0, -1, 0, 1>>, <<1, 0, 0, 2>>, <<0, 0, 1, 3>>, <<0, 0, 0, 1>> >>
PoseFiles == {[present |-> FALSE, nlines |-> 0, rows |-> << >>],
              [present |-> TRUE, nlines |-> 3, rows |-> << >>],
              [present |-> TRUE, nlines |-> 11, rows |-> PoseRows]}

SeqsUpTo(S, n) == UNION {[1..m -> S] : m \in 0..n}

\* what matcher(imq_path, imr_path) does: raise, or return rows x_q y_q x_r y_r
MatcherResults ==
    {[raised |-> TRUE, matches |-> << >>]} \cup
    {[raised |-> FALSE,
      matches |-> [k \in 1..Len(s) |->
                     <<QueryKp(k)[1], QueryKp(k)[2], s[k][1], s[k][2]>>]] :
        s \in SeqsUpTo(RefKps, MaxMatches)}

\* feature_file[q]['keypoints'], feature_file[r]['keypoints']
FeatKpq == [k \in 1..MaxMatches |-> QueryKp(k)]
FeatKpr == <<KpA, KpB>>
\* match_file[pair]['matches0']: per query keypoint a 0-based index into the
\* reference keypoints, or -1
Matches0 == [1..MaxMatches -> (-1)..(Len(FeatKpr) - 1)]

\* skip_matches: no threshold (None or 0), or at least one raw match
SkipChoices == {0, 1}

\* retrieval_dict[q]: n distinct reference views, in either order
RetrievalLists ==
    {[k \in 1..n |-> k] : n \in 1..MaxRefs} \cup
    {[k \in 1..n |-> n + 1 - k] : n \in 1..MaxRefs}

\* pycolmap.absolute_pose_estimation: a pose, a result without qvec/tvec, or
\* an exception
SolverOutcomes == {"pose", "no_pose", "raise"}

\* ---------------------------------------------- one reference view, onfly
NoView == [q |-> 0, pos |-> -1, r |-> 0, outcome |-> "none", exc |-> "", raw |-> -1, kept |-> 0]

BelowThresholdLax(n, skip) == n <= skip
\* len(matches) < skip_matches
BelowThreshold(n, skip) == n < skip

\* skip and (np.count_nonzero(v) < skip); None and 0 are both falsy
SkipView(n, skip) == skip # 0 /\ n < skip

\* the body of the try block: what it raised, or what it left in the locals
ViewRaised(exc, raw) ==
    [exc |-> exc, skipped |-> FALSE, raw |-> raw,
     mkpq |-> << >>, mkpr |-> << >>, mkp3d |-> << >>, valid |-> << >>]

ViewSkipped(raw) ==
    [exc |-> "", skipped |-> TRUE, raw |-> raw,
     mkpq |-> << >>, mkpr |-> << >>, mkp3d |-> << >>, valid |-> << >>]

\* scan load, interpolation, pose lookup and transform, shared by both modes
LiftView(mkpq, mkpr, sfile, pfile) ==
    LET ld == loadmat(sfile)
        it == interpolate_scan(ld.scan, mkpr)
        gp == get_scan_pose(pfile)
    IN  IF ld.raised THEN ViewRaised(ld.exc, Len(mkpq))
        ELSE IF it.raised THEN ViewRaised(it.exc, Len(mkpq))
        ELSE IF gp.raised THEN ViewRaised(gp.exc, Len(mkpq))
        ELSE [exc |-> "", skipped |-> FALSE, raw |-> Len(mkpq),
              mkpq |-> mkpq, mkpr |-> mkpr,
              mkp3d |-> Transform(gp.P, it.kp3d), valid |-> it.valid]

OnflyTry(mres, sfile, pfile, skip) ==
    IF mres.raised THEN ViewRaised("MatcherError", -1)
    ELSE IF BelowThreshold(Len(mres.matches), skip) THEN ViewSkipped(Len(mres.matches))
    ELSE LiftView([k \in 1..Len(mres.matches) |-> <<mres.matches[k][1], mres.matches[k][2]>>],
                  [k \in 1..Len(mres.matches) |-> <<mres.matches[k][3], mres.matches[k][4]>>],
                  sfile, pfile)

ExceptCatchesNoAssert(exc) == exc # "AssertionError"
\* a bare `except:` catches every exception
ExceptCatches(exc) == TRUE

\* the first part of the loop body of pose_from_cluster
PrecompBody(m, sfile, pfile, skip) ==
    LET v == [k \in 1..Len(m) |-> m[k] > -1]
    IN  IF SkipView(count_nonzero(v), skip) THEN ViewSkipped(count_nonzero(v))
        ELSE LiftView(BoolIndex(FeatKpq, v),
                      [k \in 1..count_nonzero(v) |-> FeatKpr[BoolIndex(m, v)[k] + 1]],
                      sfile, pfile)

\* every way one reference view can go, per configured threshold
OnflyOutcomes ==
    [skip \in SkipChoices |->
        {OnflyTry(mres, sfile, pfile, skip) :
            mres \in MatcherResults, sfile \in ScanFiles, pfile \in PoseFiles}]

\* match_file[pair] may be missing: KeyError
PrecompOutcomes ==
    [skip \in SkipChoices |->
        {ViewRaised("KeyError: pair", -1)} \cup
        {PrecompBody(m, sfile, pfile, skip) :
            m \in Matches0, sfile \in ScanFiles, pfile \in PoseFiles}]

\* where the correspondences of a view come from (history)
SourceTags(t, pos, r) ==
    [k \in 1..Len(t.valid) |-> [pos |-> pos, r |-> r, k |-> k, valid |-> t.valid[k]]]

IndexOfSurvivor(pos, chunks) == Len(chunks)
\* the value np.full writes: the enumerate() index of the view
IndexOfView(pos, chunks) == pos

Unfiltered(a, mask) == a
\* mkp3d[valid]
KeepValid3d(a, mask) == BoolIndex(a, mask)

Abort(cause) ==
    /\ pc' = "aborted"
    /\ abort_cause' = cause

\* the loop goes on to the next view, or leaves the loop after the last one
NextView ==
    /\ i' = i + 1
    /\ pc' = IF i + 1 < Len(retrieved) THEN "views" ELSE "solve"

\* lines 162-166 and 94-97: the appends after a view that got through
AppendView(t) ==
    /\ all_mkpq' = Append(all_mkpq, BoolIndex(t.mkpq, t.valid))
    /\ all_mkpr' = Append(all_mkpr, BoolIndex(t.mkpr, t.valid))
    /\ all_mkp3d' = Append(all_mkp3d, KeepValid3d(t.mkp3d, t.valid))
    /\ all_indices' = Append(all_indices,
                             full(count_nonzero(t.valid), IndexOfView(i, all_indices)))
    /\ all_src' = Append(all_src, BoolIndex(SourceTags(t, i, retrieved[i + 1]), t.valid))
    /\ num_matches' = num_matches + Len(t.mkpq)

KeepAggregate ==
    UNCHANGED <<all_mkpq, all_mkpr, all_mkp3d, all_indices, all_src, num_matches>>

ViewRecord(t, outcome) ==
    [q |-> qn, pos |-> i, r |-> retrieved[i + 1], outcome |-> outcome,
     exc |-> t.exc, raw |-> t.raw,
     kept |-> IF outcome = "kept" THEN count_nonzero(t.valid) ELSE 0]

\* one iteration of the loop of pose_from_cluster_onfly_matching
OnflyView ==
    /\ mode = "onfly" /\ pc = "views"
    /\ \E t \in OnflyOutcomes[skip_matches] :
             \/ /\ t.exc # ""
                /\ last_view' = ViewRecord(t, "raised")
                /\ KeepAggregate
                /\ IF ExceptCatches(t.exc)
                   THEN /\ failed' = Append(failed, <<qn, retrieved[i + 1]>>)
                        /\ NextView /\ UNCHANGED abort_cause
                   ELSE /\ Abort(t.exc)
                        /\ UNCHANGED <<failed, i>>
             \/ /\ t.exc = "" /\ t.skipped
                /\ failed' = Append(failed, <<qn, retrieved[i + 1]>>)
                /\ last_view' = ViewRecord(t, "skipped")
                /\ KeepAggregate /\ NextView /\ UNCHANGED abort_cause
             \/ /\ t.exc = "" /\ ~ t.skipped
                /\ AppendView(t)
                /\ last_view' = ViewRecord(t, "kept")
                /\ NextView /\ UNCHANGED <<failed, abort_cause>>
    /\ UNCHANGED <<interp_vars, mode, skip_matches, qn, retrieved, logs_loc,
                   logs_failed, poses, res_dict, pose_table, logs_dumped, solver_call>>

\* one iteration of the loop of pose_from_cluster: nothing is caught
PrecompView ==
    /\ mode = "precomputed" /\ pc = "views"
    /\ \E t \in PrecompOutcomes[skip_matches] :
             \/ /\ t.exc # ""
                /\ last_view' = ViewRecord(t, "raised")
                /\ Abort(t.exc)
                /\ KeepAggregate /\ UNCHANGED i
             \/ /\ t.exc = "" /\ t.skipped
                /\ last_view' = ViewRecord(t, "skipped")
                /\ KeepAggregate /\ NextView /\ UNCHANGED abort_cause
             \/ /\ t.exc = "" /\ ~ t.skipped
                /\ AppendView(t)
                /\ last_view' = ViewRecord(t, "kept")
                /\ NextView /\ UNCHANGED abort_cause
    /\ UNCHANGED <<interp_vars, mode, skip_matches, qn, retrieved, failed, logs_loc,
                   logs_failed, poses, res_dict, pose_table, logs_dumped, solver_call>>

\* ------------------------------------------------------------ the drivers
NoRecord ==
    [db |-> << >>, keypoints_query |-> << >>, keypoints_db |-> << >>,
     points_3d |-> << >>, indices_db |-> << >>, num_matches |-> -1, src |-> << >>]

\* the dictionary stored in logs['loc'][q] (PnP_ret is the solver's own)
Record ==
    [db |-> retrieved,
     keypoints_query |-> concatenate(all_mkpq),
     keypoints_db |-> concatenate(all_mkpr),
     points_3d |-> concatenate(all_mkp3d),
     indices_db |-> concatenate(all_indices),
     num_matches |-> num_matches,
     src |-> concatenate(all_src)]

locals == <<retrieved, i, all_mkpq, all_mkpr, all_mkp3d, all_indices, all_src,
            num_matches, failed, last_view>>

ClearLocals ==
    /\ i' = 0
    /\ all_mkpq' = << >> /\ all_mkpr' = << >> /\ all_mkp3d' = << >>
    /\ all_indices' = << >> /\ all_src' = << >>
    /\ num_matches' = 0
    /\ failed' = << >>

\* the aggregator returned (its locals are gone); for q in tqdm(queries):
\* move to the next query, or leave the loop
NextQuery ==
    /\ qn' = qn + 1
    /\ pc' = IF qn < NQ THEN "start" ELSE "write"
    /\ ClearLocals
    /\ retrieved' = << >>
    /\ last_view' = NoView

NoCall == [called |-> FALSE, q |-> 0, n2d |-> 0, n3d |-> 0, out |-> ""]

\* the arguments of pycolmap.absolute_pose_estimation(all_mkpq, all_mkp3d, ...)
SolverCall(out) ==
    [called |-> TRUE, q |-> qn,
     n2d |-> Len(concatenate(all_mkpq)), n3d |-> Len(concatenate(all_mkp3d)),
     out |-> out]

\* retrieved = retrieval_dict[q], then the set-up of the aggregator's locals
StartQuery ==
    /\ pc = "start"
    /\ \E db \in RetrievalLists :
         /\ retrieved' = db
         /\ pc' = IF Len(db) > 0 THEN "views" ELSE "solve"
    /\ UNCHANGED <<i, all_mkpq, all_mkpr, all_mkp3d, all_indices, all_src,
                   num_matches, failed, last_view>>
    /\ res_dict' = NoRecord
    /\ solver_call' = NoCall
    /\ UNCHANGED <<interp_vars, mode, skip_matches, qn, logs_loc, logs_failed, poses,
                   pose_table, logs_dumped, abort_cause>>

\* if num_matches == 0: return None, failed, times
NoPoseGuard(n, chunks) == n = 0

PosesAlways(q, got) == poses \cup {q}
\* poses[q] = (ret['qvec'], ret['tvec']) runs only when a record is returned
PosesAfter(q, got) == IF got THEN poses \cup {q} ELSE poses

\* lines 167-186 of pose_from_cluster_onfly_matching, then lines 223-228 of
\* localize_with_matcher
OnflySolve ==
    /\ mode = "onfly" /\ pc = "solve"
    /\ IF NoPoseGuard(num_matches, all_mkpq)
       THEN /\ logs_loc' = [logs_loc EXCEPT ![qn] = "None"]
            /\ logs_failed' = logs_failed \o failed
            /\ poses' = PosesAfter(qn, FALSE)
            /\ NextQuery
            /\ res_dict' = NoRecord
            /\ UNCHANGED <<solver_call, abort_cause>>
       ELSE \E out \in SolverOutcomes :
              /\ solver_call' = SolverCall(out)
              /\ IF out = "pose"
                 THEN /\ poses' = PosesAfter(qn, TRUE)
                      /\ res_dict' = Record
                      /\ logs_loc' = [logs_loc EXCEPT ![qn] = "record"]
                      /\ logs_failed' = logs_failed \o failed
                      /\ NextQuery
                      /\ UNCHANGED abort_cause
                 ELSE /\ Abort(IF out = "raise" THEN "SolverError" ELSE "KeyError: qvec")
                      /\ UNCHANGED <<poses, res_dict, logs_loc, logs_failed, qn>>
                      /\ UNCHANGED locals
    /\ UNCHANGED <<interp_vars, mode, skip_matches, pose_table, logs_dumped>>

\* lines 99-113 of pose_from_cluster, then lines 271-280 of main
PrecompSolve ==
    /\ mode = "precomputed" /\ pc = "solve"
    /\ IF concatenate_raises(all_mkpq)
       THEN /\ Abort("ValueError: concatenate")
            /\ UNCHANGED <<poses, res_dict, logs_loc, qn, solver_call>>
            /\ UNCHANGED locals
       ELSE \E out \in SolverOutcomes :
              /\ solver_call' = SolverCall(out)
              /\ IF out = "pose"
                 THEN /\ poses' = poses \cup {qn}
                      /\ res_dict' = Record
                      /\ logs_loc' = [logs_loc EXCEPT ![qn] = "record"]
                      /\ NextQuery
                      /\ UNCHANGED abort_cause
                 ELSE /\ Abort(IF out = "raise" THEN "SolverError" ELSE "KeyError: qvec")
                      /\ UNCHANGED <<poses, res_dict, logs_loc, qn>>
                      /\ UNCHANGED locals
    /\ UNCHANGED <<interp_vars, mode, skip_matches, logs_failed, pose_table, logs_dumped>>

\* the queries, in order, that have a pose
PoseLines(have) ==
    LET F[n \in 0..NQ] ==
            IF n = 0 THEN << >>
            ELSE IF n \in have THEN Append(F[n-1], n) ELSE F[n-1]
    IN  F[NQ]

\* the pose file (lines 231-239: queries without a pose are passed over;
\* lines 283-289: poses[q] of every query) and the pickled log
WriteOutputs ==
    /\ pc = "write"
    /\ IF mode = "precomputed" /\ \E q \in Queries : q \notin poses
       THEN /\ Abort("KeyError: poses")
            /\ UNCHANGED <<pose_table, logs_dumped>>
       ELSE /\ pose_table' = PoseLines(poses)
            /\ logs_dumped' = TRUE
            /\ pc' = "done"
            /\ UNCHANGED abort_cause
    /\ UNCHANGED <<interp_vars, mode, skip_matches, qn, retrieved, i, all_mkpq, all_mkpr,
                   all_mkp3d, all_indices, all_src, num_matches, failed, last_view,
                   logs_loc, logs_failed, poses, res_dict, solver_call>>

\* ------------------------------------------------------- specifications
InterpIdle ==
    /\ is_scan = MakeScan(1, 1, {})
    /\ is_kp = << >>
    /\ is_ret = Raised("idle")

RunStart ==
    /\ pc = "start"
    /\ qn = 1
    /\ retrieved = << >>
    /\ i = 0
    /\ all_mkpq = << >> /\ all_mkpr = << >> /\ all_mkp3d = << >>
    /\ all_indices = << >> /\ all_src = << >>
    /\ num_matches = 0
    /\ failed = << >>
    /\ logs_loc = [q \in Queries |-> "absent"]
    /\ logs_failed = << >>
    /\ poses = {}
    /\ res_dict = NoRecord
    /\ pose_table = << >>
    /\ logs_dumped = FALSE
    /\ last_view = NoView
    /\ solver_call = NoCall
    /\ abort_cause = ""

RunIdle ==
    /\ mode = "none"
    /\ skip_matches = 0
    /\ RunStart

\* the state after the set-up of localize_with_matcher (lines 192-216) or of
\* main (lines 248-265)
Init ==
    /\ InterpIdle
    /\ mode \in {"onfly", "precomputed"}
    /\ skip_matches \in SkipChoices
    /\ RunStart

Next == StartQuery \/ OnflyView \/ PrecompView \/ OnflySolve \/ PrecompSolve \/ WriteOutputs

Spec == Init /\ [][Next]_vars

Pending == Raised("pending")

\* all subsets of S with at most k elements
RECURSIVE SmallSubsets(_, _)
SmallSubsets(S, k) ==
    IF k = 0 THEN {{}}
    ELSE LET prev == SmallSubsets(S, k - 1)
         IN  prev \cup {T \cup {e} : T \in prev, e \in S}

ScanEntries(h, w) == (0..(h-1)) \X (0..(w-1)) \X Channels

\* coordinates from one step before the first pixel to one step past the last
CoordsAround(dim) == (-1)..((dim - 1) * Sub + 1)
\* coordinates from the first pixel to the last
CoordsWithin(dim) == 0..((dim - 1) * Sub)

\* interpolate_scan(is_scan, kp) is called, kp from `kps`
Interpolate(kps) ==
    /\ is_ret = Pending
    /\ \E kp \in kps :
         /\ is_kp' = kp
         /\ is_ret' = interpolate_scan(is_scan, kp)
    /\ UNCHANGED <<is_scan, run_vars>>

\* calls that exercise the bounds assertion: scans without holes, keypoints
\* inside, on the border of and outside the scan
InitBounds ==
    /\ is_scan \in {MakeScan(h, w, {}) : h \in 1..MaxDim, w \in 1..MaxDim}
    /\ is_kp = << >>
    /\ is_ret = Pending
    /\ RunIdle

InterpolateAround ==
    Interpolate(SeqsUpTo(CoordsAround(is_scan.w) \X CoordsAround(is_scan.h), MaxKp))

SpecBounds == InitBounds /\ [][InterpolateAround]_vars

\* calls that exercise the sampling: scans with NaN entries, keypoints within
\* the scan
InitSample ==
    /\ \E h \in 1..MaxDim, w \in 1..MaxDim :
         is_scan \in {MakeScan(h, w, holes) :
                         holes \in SmallSubsets(ScanEntries(h, w), MaxHoles)}
    /\ is_kp = << >>
    /\ is_ret = Pending
    /\ RunIdle

InterpolateWithin ==
    Interpolate(SeqsUpTo(CoordsWithin(is_scan.w) \X CoordsWithin(is_scan.h), MaxSampleKp))

SpecSample == InitSample /\ [][InterpolateWithin]_vars

\* ------------------------------------------------------------ properties
Done == is_ret.exc # "pending" /\ is_ret.exc # "idle"

\* 0 < x < W-1 and 0 < y < H-1, in 1/Sub pixel
StrictlyInside(pt, scan) ==
    /\ 0 < pt[1] /\ pt[1] < (scan.w - 1) * Sub
    /\ 0 < pt[2] /\ pt[2] < (scan.h - 1) * Sub

ViewStep == pc = "views" /\ last_view'.pos = i /\ last_view'.q = qn /\ last_view' # last_view

AggregateUnchanged ==
    /\ all_mkpq' = all_mkpq /\ all_mkpr' = all_mkpr /\ all_mkp3d' = all_mkp3d
    /\ all_indices' = all_indices /\ num_matches' = num_matches

NonDecreasing(a) == \A k \in 1..(Len(a) - 1) : a[k] <= a[k + 1]

NoNaN(p) == \A c \in Channels : ~ isnan(p[c])

\* C1: a query with zero validity-filtered correspondences never reaches the
\* pose solver, and never gets a record (hence no pose line).
C1_NoSolverOnZeroCorrespondences ==
    /\ solver_call.called => solver_call.n2d > 0
    /\ res_dict # NoRecord => Len(res_dict.keypoints_query) > 0

\* C2: on-the-fly mode: when the matcher, the scan load, the pose lookup or the
\* interpolation (its assertion included) raises for a reference view, the pair
\* is appended to the failure list, the aggregate is left as it was, and the
\* loop goes on to the next view (or, after the last view, leaves the loop
\* normally): the exception does not end the run.
C2_ExceptionIsolated ==
    [][(mode = "onfly" /\ ViewStep /\ last_view'.outcome = "raised")
         => /\ pc' # "aborted"
            /\ failed' = Append(failed, <<qn, retrieved[i + 1]>>)
            /\ AggregateUnchanged
            /\ i' = i + 1
            /\ pc' = IF i + 1 < Len(retrieved) THEN "views" ELSE "solve"]_vars

\* the first view failed its bounds assertion and the loop stands at the second
C2_Witness ==
    /\ mode = "onfly" /\ pc = "views" /\ i = 1
    /\ last_view.outcome = "raised" /\ last_view.exc = "AssertionError"
    /\ failed = << <<qn, retrieved[1]>> >>

\* C3: a solver that raises or returns no qvec/tvec only leaves its query
\* unlocalized: the query is logged as None and the run goes on.
C3_SolverFailureIsolated ==
    (solver_call.called /\ solver_call.out # "pose")
        => (pc # "aborted" /\ logs_loc[solver_call.q] = "None")

\* C4: precomputed mode: a query all of whose reference views were skipped by
\* the threshold does not end the run.
C4_AllSkippedIsolated ==
    (mode = "precomputed" /\ retrieved # << >> /\ i = Len(retrieved) /\ Len(all_mkpq) = 0)
        => pc # "aborted"

\* C5: every entry of the index array is the 0-based position, in the
\* retrieval list, of the view its correspondence came from; the array is
\* non-decreasing.  In the aggregate of the current query and in its record.
C5_IndicesArePositions ==
    /\ Len(all_indices) = Len(all_src)
    /\ \A c \in 1..Len(all_indices) :
          /\ Len(all_indices[c]) = Len(all_src[c])
          /\ \A k \in 1..Len(all_indices[c]) :
                /\ all_indices[c][k] = all_src[c][k].pos
                /\ retrieved[all_indices[c][k] + 1] = all_src[c][k].r
    /\ NonDecreasing(concatenate(all_indices))
    /\ Len(res_dict.indices_db) = Len(res_dict.src)
    /\ \A k \in 1..Len(res_dict.indices_db) :
          /\ res_dict.indices_db[k] = res_dict.src[k].pos
          /\ res_dict.db[res_dict.indices_db[k] + 1] = res_dict.src[k].r
    /\ NonDecreasing(res_dict.indices_db)

\* the first view contributed nothing, the second one did, and is numbered 1
C5_Witness ==
    /\ Len(all_indices) = 1 /\ Len(all_indices[1]) > 0 /\ all_indices[1][1] = 1
    /\ last_view.pos = 1

\* C6: a view with fewer raw matches than skip_matches adds nothing to the
\* aggregate nor to num_matches and, on the fly, its pair is appended to the
\* failure list (which the driver adds to logs['failed']); a view with at
\* least skip_matches raw matches is not skipped.
C6_SkipBelowThreshold ==
    [][/\ (ViewStep /\ last_view'.raw >= 0 /\ last_view'.raw < skip_matches)
            => /\ last_view'.outcome = "skipped"
               /\ AggregateUnchanged
               /\ mode = "onfly" => failed' = Append(failed, <<qn, retrieved[i + 1]>>)
       /\ (ViewStep /\ last_view'.raw >= skip_matches)
            => last_view'.outcome # "skipped"
       /\ (mode = "onfly" /\ pc = "solve" /\ pc' # "aborted" /\ pc' # "solve")
            => logs_failed' = logs_failed \o failed]_vars

\* on the fly, a view was skipped for its match count and its pair is listed
C6_Witness ==
    /\ mode = "onfly" /\ last_view.outcome = "skipped"
    /\ last_view.raw < skip_matches
    /\ failed # << >> /\ failed[Len(failed)] = <<last_view.q, last_view.r>>

\* C7: when localize_with_matcher has finished, every query has a log entry,
\* None or a record, and is in the pose table (once) exactly when the entry is
\* a record.
C7_LogAndPoseTable ==
    (mode = "onfly" /\ pc = "done")
        => /\ logs_dumped
           /\ \A q \in Queries :
                 /\ logs_loc[q] \in {"None", "record"}
                 /\ Cardinality({k \in 1..Len(pose_table) : pose_table[k] = q})
                      = IF logs_loc[q] = "record" THEN 1 ELSE 0

\* a finished run with an unlocalized query
C7_Witness ==
    /\ mode = "onfly" /\ pc = "done"
    /\ \E q \in Queries : logs_loc[q] = "None" /\ \A k \in 1..Len(pose_table) : pose_table[k] # q

\* C8: interpolate_scan passes its bounds assertion exactly when every
\* keypoint is strictly inside the scan; otherwise it raises and returns no
\* points.
C8_BoundsStrict ==
    Done =>
        /\ is_ret.raised <=> \E k \in 1..Len(is_kp) : ~ StrictlyInside(is_kp[k], is_scan)
        /\ is_ret.raised => (is_ret.exc = "AssertionError" /\ Len(is_ret.kp3d) = 0)
        /\ ~ is_ret.raised => Len(is_ret.kp3d) = Len(is_kp)

\* one keypoint strictly inside, one on the last column: the call raised
C8_Witness ==
    /\ Done /\ is_ret.raised /\ Len(is_kp) = 2
    /\ StrictlyInside(is_kp[1], is_scan)
    /\ is_kp[2][1] = (is_scan.w - 1) * Sub /\ 0 < is_kp[2][2] /\ is_kp[2][2] < (is_scan.h - 1) * Sub

\* C9: per keypoint and channel the result is the bilinear sample unless that
\* is NaN, and then the nearest-neighbour sample; a keypoint is valid exactly
\* when its 3 returned channels are not NaN.
C9_PreferBilinear ==
    (Done /\ ~ is_ret.raised) =>
        \A k \in 1..Len(is_kp) :
            /\ \A c \in Channels :
                  is_ret.kp3d[k][c] =
                      IF isnan(Bilinear(is_scan, is_kp[k], c))
                      THEN Nearest(is_scan, is_kp[k], c)
                      ELSE Bilinear(is_scan, is_kp[k], c)
            /\ is_ret.valid[k] <=> NoNaN(is_ret.kp3d[k])

\* a channel whose bilinear sample is NaN got the nearest-neighbour value
C9_Witness ==
    /\ Done /\ ~ is_ret.raised /\ Len(is_kp) > 0
    /\ \E c \in Channels :
          /\ isnan(Bilinear(is_scan, is_kp[1], c))
          /\ ~ isnan(Nearest(is_scan, is_kp[1], c))
          /\ is_ret.kp3d[1][c] = Nearest(is_scan, is_kp[1], c)
    /\ is_ret.valid[1]

\* C10: every kept correspondence comes from a keypoint flagged valid, its
\* global 3D point has no NaN, and the four arrays have the same length, in
\* the aggregate, in the solver's arguments and in the record.
C10_ValidAndParallel ==
    /\ Len(all_mkpq) = Len(all_mkp3d) /\ Len(all_mkpr) = Len(all_mkp3d)
    /\ Len(all_indices) = Len(all_mkp3d) /\ Len(all_src) = Len(all_mkp3d)
    /\ \A c \in 1..Len(all_mkp3d) :
          /\ Len(all_mkpq[c]) = Len(all_mkp3d[c]) /\ Len(all_mkpr[c]) = Len(all_mkp3d[c])
          /\ Len(all_indices[c]) = Len(all_mkp3d[c]) /\ Len(all_src[c]) = Len(all_mkp3d[c])
          /\ \A k \in 1..Len(all_mkp3d[c]) : all_src[c][k].valid /\ NoNaN(all_mkp3d[c][k])
    /\ solver_call.called => solver_call.n2d = solver_call.n3d
    /\ Len(res_dict.keypoints_query) = Len(res_dict.points_3d)
    /\ Len(res_dict.keypoints_db) = Len(res_dict.points_3d)
    /\ Len(res_dict.indices_db) = Len(res_dict.points_3d)
    /\ \A k \in 1..Len(res_dict.points_3d) : res_dict.src[k].valid /\ NoNaN(res_dict.points_3d[k])

\* a view with two raw matches of which one was dropped as invalid
C10_Witness ==
    /\ last_view.outcome = "kept" /\ last_view.raw = 2 /\ last_view.kept = 1
    /\ Len(all_mkp3d) > 0 /\ Len(all_mkp3d[Len(all_mkp3d)]) = 1

====
